---- MODULE Spec2Model ----
(***************************************************************************)
(* Request-shaping layer of the Azure DevOps Server MCP client:            *)
(*   - rate_limit             sliding-window rate limiter                  *)
(*   - request_size_limit     payload size guard                           *)
(*   - azure_devops_error_handler   error normalizer                       *)
(* and the client operations they decorate.                                *)
(*                                                                         *)
(* Python str values are TLA+ strings where their text matters (names,     *)
(* messages) and vectors of code-point counts by UTF-8 width where only    *)
(* their size and emptiness matter (call arguments).  Arguments are        *)
(* well-formed text: every code point has a UTF-8 encoding.                *)
(***************************************************************************)
EXTENDS Integers, Sequences, FiniteSets, TLC

VARIABLES
    requests_per_minute,   \* quota each rate-limited key was decorated with
    rate_limit_storage,    \* _rate_limit_storage: key -> deque of timestamps
    now,                   \* the clock read by time.time()
    admitted,              \* history: key -> every timestamp ever appended
    admitted_by,           \* history: key -> the client instance of each of them
    last,                  \* the most recent invocation and its outcome
    tool_call,             \* the MCP tool call being served, if any
    in_flight              \* invocations followed statement by statement

vars == <<requests_per_minute, rate_limit_storage, now, admitted, admitted_by, last,
          tool_call, in_flight>>

---------------------------------------------------------------------------
(* Bounds of the model *)

MaxQuota == 2
MaxOffset == 1
MaxAdmissions == 3
MaxTasks == 2

(* Program constants *)

WINDOW_SECONDS == 60
WORK_ITEM_MAX_SIZE_MB == 5
BYTES_PER_KB == 1024
BATCH_SIZE == 20
CLIENT_MAX_LIMIT == 200
TOOL_MAX_LIMIT == 100
CLIENT_MAX_ITEMS_LIMIT == 500
TOOL_MAX_ITEMS_LIMIT == 200
DOCUMENTED_MAX_LIMIT == 200

---------------------------------------------------------------------------
(* Python str helpers, computed on TLA+ strings character by character *)

UPPER == "ABCDEFGHIJKLMNOPQRSTUVWXYZ"
LOWER == "abcdefghijklmnopqrstuvwxyz"

\* str.startswith(prefix)
startswith(s, prefix) ==
    /\ Len(prefix) <= Len(s)
    /\ SubSeq(s, 1, Len(prefix)) = prefix

\* str.replace(old, new): every non-overlapping occurrence, left to right
RECURSIVE replace(_, _, _)
replace(s, old, new) ==
    IF Len(s) < Len(old) \/ Len(s) = 0 THEN s
    ELSE IF startswith(s, old)
         THEN new \o replace(SubSeq(s, Len(old) + 1, Len(s)), old, new)
         ELSE SubSeq(s, 1, 1) \o replace(SubSeq(s, 2, Len(s)), old, new)

LOWER_OF == [c \in {SubSeq(UPPER, i, i) : i \in 1..26} |->
               SubSeq(LOWER, CHOOSE i \in 1..26 : SubSeq(UPPER, i, i) = c,
                             CHOOSE i \in 1..26 : SubSeq(UPPER, i, i) = c)]

lower_char(c) == IF c \in DOMAIN LOWER_OF THEN LOWER_OF[c] ELSE c

\* str.lower()
RECURSIVE lower(_)
lower(s) ==
    IF Len(s) = 0 THEN s
    ELSE lower_char(SubSeq(s, 1, 1)) \o lower(SubSeq(s, 2, Len(s)))

\* sub in s
contains(s, sub) ==
    \E i \in 1..(Len(s) - Len(sub) + 1) : SubSeq(s, i, i + Len(sub) - 1) = sub

---------------------------------------------------------------------------
(* Python values passed as call arguments.                                 *)
(* A value is a triple: the name of its class; for a str, how many code   *)
(* points it has of each UTF-8 width 1..4 (for a list, those of the one    *)
(* str it holds); the value of an int.                                     *)

PyStr(w) == <<"str", w, 0>>
PyInt(n) == <<"int", <<0, 0, 0, 0>>, n>>
PyList(w) == <<"list", w, 0>>
PyNone == <<"NoneType", <<0, 0, 0, 0>>, 0>>
\* an instance of one of the client classes: the n-th one constructed
PyInstance(cls, n) == <<cls, <<0, 0, 0, 0>>, n>>
PyObject(cls) == PyInstance(cls, 0)

\* type(x).__name__
type_name(x) == x[1]
\* the code points of a str, by width
code_points(x) == x[2]
\* the value of an int
int_value(x) == x[3]
\* which instance of its class an object is
instance_of(x) == x[3]

\* len(s): code points
str_len(w) == w[1] + w[2] + w[3] + w[4]

\* len(s.encode('utf-8')): one to four bytes per code point
utf8_len(w) == w[1] + 2 * w[2] + 3 * w[3] + 4 * w[4]

\* bool(x) as used by "not x" and "if x"
truthy(x) ==
    CASE type_name(x) = "str" -> str_len(code_points(x)) > 0
      [] type_name(x) = "int" -> int_value(x) # 0
      [] type_name(x) = "NoneType" -> FALSE
      [] OTHER -> TRUE

---------------------------------------------------------------------------
(* Outcomes.  An invocation either returns a result or raises; on the way  *)
(* it may change the rate-limit storage, write log entries and call the    *)
(* decorated function (func_calls) and the SDK client (sdk_calls, of which  *)
(* sdk_failures raised).                                                   *)
(* site names the code that raised the exception the caller receives, orig *)
(* the exception as it was first raised.  A result is the sequence of the  *)
(* serialized items returned: one for an operation that returns a single   *)
(* object.                                                                 *)

NoException == [exc |-> "none", site |-> "none", msg |-> ""]

Returned(st, result, sdk_calls) ==
    [st |-> st, exc |-> "none", site |-> "none", msg |-> "", result |-> result,
     log |-> <<>>, func_calls |-> 1, sdk_calls |-> sdk_calls, sdk_failures |-> 0,
     appended |-> FALSE, orig |-> NoException]

Raised(st, exc, site, msg, log, func_calls, sdk_calls) ==
    [st |-> st, exc |-> exc, site |-> site, msg |-> msg, result |-> <<>>,
     log |-> log, func_calls |-> func_calls, sdk_calls |-> sdk_calls,
     sdk_failures |-> 0, appended |-> FALSE,
     orig |-> [exc |-> exc, site |-> site, msg |-> msg]]

LogEntry(level, msg) == [level |-> level, msg |-> msg]

\* One call of an SDK client method: it returns, or raises the SDK's own
\* AzureDevOpsServiceError, or raises some other Exception.  be tells what
\* the SDK does: outcome and text for its first call, found for how many
\* items the server holds, failing for the batches of a batched fetch that
\* raise (with the same text).
sdk_call(st, be, result) ==
    IF be.outcome = "ok" THEN Returned(st, result, 1)
    ELSE [Raised(st, be.outcome, "sdk", be.text, <<>>, 1, 1)
            EXCEPT !.sdk_failures = 1]

---------------------------------------------------------------------------
(* The decorated client operations (the bodies the decorators wrap).       *)
(* call.args are the positional arguments, self first, call.kwargs the     *)
(* keyword arguments in order.                                             *)

ValueError(st, msg) == Raised(st, "ValueError", "func", msg, <<>>, 1, 0)

\* the items a list call returns, named by their position on the server
first_items(n) == [i \in 1..n |-> i]

get_work_item(call, be, st) ==
    LET work_item_id == call.args[2]
    IN IF ~truthy(work_item_id) \/ int_value(work_item_id) <= 0
       THEN ValueError(st, "Valid work item ID is required")
       ELSE sdk_call(st, be, <<"work_item">>)

create_work_item(call, be, st) ==
    LET project == call.args[2]
        work_item_type == call.args[3]
        title == call.args[4]
    IN IF ~truthy(project) THEN ValueError(st, "Project name is required")
       ELSE IF ~truthy(work_item_type)
            THEN ValueError(st, "Work item type is required")
       ELSE IF ~truthy(title) THEN ValueError(st, "Title is required")
       ELSE sdk_call(st, be, <<"work_item">>)

update_work_item(call, be, st) ==
    LET work_item_id == call.args[2]
        fields == call.kwargs
        document == SelectSeq(fields, LAMBDA f : truthy(f.v))
    IN IF ~truthy(work_item_id) \/ int_value(work_item_id) <= 0
       THEN ValueError(st, "Valid work item ID is required")
       ELSE IF fields = <<>>
            THEN ValueError(st, "At least one field to update is required")
       ELSE IF document = <<>>
            THEN ValueError(st, "No valid fields provided for update")
       ELSE sdk_call(st, be, <<"work_item">>)

\* seq[:limit] of a list of n items: how many it keeps
slice_len(n, limit) ==
    IF limit >= 0 THEN (IF limit < n THEN limit ELSE n)
    ELSE (IF n + limit > 0 THEN n + limit ELSE 0)

\* Mutant: a batch that fails ends the loop
RECURSIVE process_batches_aborting(_, _, _, _)
process_batches_aborting(i, work_item_ids, be, acc) ==
    IF i >= Len(work_item_ids) THEN acc
    ELSE
      LET last_id == IF i + BATCH_SIZE < Len(work_item_ids)
                     THEN i + BATCH_SIZE ELSE Len(work_item_ids)
          batch_ids == SubSeq(work_item_ids, i + 1, last_id)
          batch_no == i \div BATCH_SIZE + 1
          info == LogEntry("INFO", "Processing batch " \o ToString(batch_no)
                              \o ": " \o ToString(Len(batch_ids)) \o " items")
      IN IF batch_no \in be.failing
         THEN [acc EXCEPT
                 !.log = @ \o <<info, LogEntry("ERROR", "Error processing batch "
                                     \o ToString(batch_no) \o ": " \o be.text)>>,
                 !.sdk_calls = @ + 1, !.sdk_failures = @ + 1]
         ELSE process_batches_aborting(i + BATCH_SIZE, work_item_ids, be,
                 [acc EXCEPT
                    !.work_items = @ \o batch_ids,
                    !.log = Append(@, info),
                    !.sdk_calls = @ + 1])

\* for i in range(0, len(work_item_ids), batch_size): the passes of the loop
\* from offset i on.  acc holds work_items, the log and the SDK calls so far.
RECURSIVE process_batches(_, _, _, _)
process_batches(i, work_item_ids, be, acc) ==
    IF i >= Len(work_item_ids) THEN acc
    ELSE
      LET last_id == IF i + BATCH_SIZE < Len(work_item_ids)
                     THEN i + BATCH_SIZE ELSE Len(work_item_ids)
          batch_ids == SubSeq(work_item_ids, i + 1, last_id)
          batch_no == i \div BATCH_SIZE + 1
          info == LogEntry("INFO", "Processing batch " \o ToString(batch_no)
                              \o ": " \o ToString(Len(batch_ids)) \o " items")
      IN process_batches(i + BATCH_SIZE, work_item_ids, be,
            IF batch_no \in be.failing
            THEN \* except Exception as batch_error: log and continue
                 [acc EXCEPT
                    !.log = @ \o <<info, LogEntry("ERROR", "Error processing batch "
                                        \o ToString(batch_no) \o ": " \o be.text)>>,
                    !.sdk_calls = @ + 1, !.sdk_failures = @ + 1]
            ELSE [acc EXCEPT
                    !.work_items = @ \o batch_ids,
                    !.log = Append(@, info),
                    !.sdk_calls = @ + 1])

\* The text of project is not modelled: the log entry that ends with it is
\* cut before it.
list_work_items(call, be, st) ==
    LET project == call.args[2]
        limit == int_value(call.args[4])
        executing == LogEntry("INFO", "Executing WIQL query for work items")
    IN IF ~truthy(project) THEN ValueError(st, "Project name is required")
       ELSE IF be.outcome # "ok"
            THEN [sdk_call(st, be, <<>>) EXCEPT !.log = <<executing>>]
       ELSE IF be.found = 0
            THEN [Returned(st, <<>>, 1) EXCEPT
                    !.log = <<executing,
                              LogEntry("INFO", "No work items found for project ")>>]
       ELSE LET work_item_ids == first_items(slice_len(be.found, limit))
                acc == process_batches(0, work_item_ids, be,
                          [work_items |-> <<>>,
                           log |-> <<executing,
                                     LogEntry("INFO", "Found "
                                        \o ToString(Len(work_item_ids))
                                        \o " work items to process")>>,
                           sdk_calls |-> 1, sdk_failures |-> 0])
            IN [Returned(st, acc.work_items, acc.sdk_calls) EXCEPT
                  !.log = acc.log, !.sdk_failures = acc.sdk_failures]

py_min(a, b) == IF a <= b THEN a ELSE b
py_max(a, b) == IF a >= b THEN a ELSE b

\* limit = min(max(limit, 1), 200)
client_limit(limit) == py_min(py_max(limit, 1), CLIENT_MAX_LIMIT)

\* what the server returns of n items when asked for the top ones
sdk_top(n, top) == py_min(n, top)

list_pull_requests(call, be, st) ==
    LET project == call.args[2]
        repository_id == call.args[3]
        limit == client_limit(int_value(call.args[5]))
    IN IF ~truthy(project) THEN ValueError(st, "Project name is required")
       ELSE IF ~truthy(repository_id)
            THEN ValueError(st, "Repository ID or name is required")
       ELSE sdk_call(st, be, first_items(sdk_top(be.found, limit)))

get_pull_request_comments(call, be, st) ==
    LET project == call.args[2]
        repository_id == call.args[3]
        pull_request_id == call.args[4]
        limit == client_limit(int_value(call.args[5]))
    IN IF ~truthy(project) THEN ValueError(st, "Project name is required")
       ELSE IF ~truthy(repository_id)
            THEN ValueError(st, "Repository ID or name is required")
       ELSE IF ~truthy(pull_request_id) \/ int_value(pull_request_id) <= 0
            THEN ValueError(st, "Valid pull request ID is required")
       ELSE sdk_call(st, be, first_items(slice_len(be.found, limit)))

list_branches(call, be, st) ==
    LET project == call.args[2]
        repository_id == call.args[3]
        limit == client_limit(int_value(call.args[4]))
    IN IF ~truthy(project) THEN ValueError(st, "Project name is required")
       ELSE IF ~truthy(repository_id)
            THEN ValueError(st, "Repository ID or name is required")
       ELSE sdk_call(st, be, first_items(slice_len(be.found, limit)))

get_commits(call, be, st) ==
    LET project == call.args[2]
        repository_id == call.args[3]
        limit == client_limit(int_value(call.args[5]))
    IN IF ~truthy(project) THEN ValueError(st, "Project name is required")
       ELSE IF ~truthy(repository_id)
            THEN ValueError(st, "Repository ID or name is required")
       ELSE sdk_call(st, be, first_items(sdk_top(be.found, limit)))

\* limit = min(max(limit, 1), 500)
items_client_limit(limit) == py_min(py_max(limit, 1), CLIENT_MAX_ITEMS_LIMIT)

\* be.found counts the items under the path, the path's own item left out.
list_items(call, be, st) ==
    LET project == call.args[2]
        repository_id == call.args[3]
        limit == items_client_limit(int_value(call.args[6]))
    IN IF ~truthy(project) THEN ValueError(st, "Project name is required")
       ELSE IF ~truthy(repository_id)
            THEN ValueError(st, "Repository ID or name is required")
       ELSE sdk_call(st, be, first_items(slice_len(be.found, limit)))

\* Mutant: the SDK is called before the parameters are looked at
get_pull_request_unvalidated(call, be, st) == sdk_call(st, be, <<"pull_request">>)

get_pull_request(call, be, st) ==
    LET project == call.args[2]
        repository_id == call.args[3]
        pull_request_id == call.args[4]
    IN IF ~truthy(project) THEN ValueError(st, "Project name is required")
       ELSE IF ~truthy(repository_id)
            THEN ValueError(st, "Repository ID or name is required")
       ELSE IF ~truthy(pull_request_id) \/ int_value(pull_request_id) <= 0
            THEN ValueError(st, "Valid pull request ID is required")
       ELSE sdk_call(st, be, <<"pull_request">>)

\* Undecorated: it translates its own failures.
list_team_projects(call, be, st) ==
    LET r == sdk_call(st, be, first_items(be.found))
    IN IF r.exc = "none" THEN r
       ELSE IF r.exc = "AzureDevOpsServiceError"
            THEN [r EXCEPT !.exc = "Exception", !.site = "list_team_projects",
                     !.msg = "Failed to list team projects: " \o r.msg,
                     !.log = Append(@, LogEntry("ERROR",
                        "Azure DevOps API error in list_team_projects: " \o r.msg))]
       ELSE [r EXCEPT !.exc = "Exception", !.site = "list_team_projects",
                !.msg = "Unexpected error listing team projects: " \o r.msg,
                !.log = Append(@, LogEntry("ERROR",
                   "Unexpected error in list_team_projects: " \o r.msg))]

Ops == {"list_work_items", "get_work_item", "create_work_item",
        "update_work_item", "list_pull_requests", "get_pull_request",
        "get_pull_request_comments", "list_branches", "get_commits",
        "list_items", "list_team_projects"}

method_body(op, call, be, st) ==
    CASE op = "list_work_items" -> list_work_items(call, be, st)
      [] op = "get_work_item" -> get_work_item(call, be, st)
      [] op = "create_work_item" -> create_work_item(call, be, st)
      [] op = "update_work_item" -> update_work_item(call, be, st)
      [] op = "list_pull_requests" -> list_pull_requests(call, be, st)
      [] op = "get_pull_request" -> get_pull_request(call, be, st)
      [] op = "get_pull_request_comments" -> get_pull_request_comments(call, be, st)
      [] op = "list_items" -> list_items(call, be, st)
      [] op = "list_branches" -> list_branches(call, be, st)
      [] op = "get_commits" -> get_commits(call, be, st)
      [] op = "list_team_projects" -> list_team_projects(call, be, st)

\* The class each operation is a method of
class_name(op) ==
    CASE op \in {"list_work_items", "get_work_item", "create_work_item",
                 "update_work_item"}
            -> "AzureDevOpsWorkItems"
      [] op \in {"list_pull_requests", "get_pull_request",
                 "get_pull_request_comments"}
            -> "AzureDevOpsPullRequests"
      [] op \in {"list_branches", "get_commits", "list_items"}
            -> "AzureDevOpsGitRepositories"
      [] op = "list_team_projects" -> "AzureDevOpsTeamProjects"

\* The attribute in which each class keeps its SDK client
sdk_client_attribute(cls) ==
    CASE cls = "AzureDevOpsWorkItems" -> "wit_client"
      [] cls \in {"AzureDevOpsPullRequests", "AzureDevOpsGitRepositories"}
            -> "git_client"
      [] cls = "AzureDevOpsTeamProjects" -> "core_client"

\* The decorated function as it is called with self = call.args[1].  Every
\* SDK call goes through an attribute of self (self.wit_client,
\* self.git_client, self.core_client): when self is not an instance of the
\* class, the lookup raises AttributeError where the SDK would be called.
func_body(op, call, be, st) ==
    IF type_name(call.args[1]) = class_name(op) THEN method_body(op, call, be, st)
    ELSE LET r == method_body(op, call, be, st)
         IN IF r.sdk_calls > 0
            THEN Raised(st, "AttributeError", "func",
                        "'" \o type_name(call.args[1])
                           \o "' object has no attribute '"
                           \o sdk_client_attribute(class_name(op)) \o "'",
                        <<>>, 1, 0)
            ELSE r

\* Mutant: rate_limit applied above request_size_limit
decorators_rate_limit_first(op) ==
    CASE op \in {"list_work_items", "get_work_item"}
            -> <<"rate_limit", "azure_devops_error_handler">>
      [] op \in {"create_work_item", "update_work_item"}
            -> <<"rate_limit", "request_size_limit", "azure_devops_error_handler">>
      [] op \in {"list_pull_requests", "get_pull_request",
                 "get_pull_request_comments", "list_branches", "get_commits",
                 "list_items"}
            -> <<"azure_devops_error_handler">>
      [] op = "list_team_projects" -> <<>>

\* Mutant: the error handler applied outermost
decorators_handler_first(op) ==
    CASE op \in {"list_work_items", "get_work_item"}
            -> <<"azure_devops_error_handler", "rate_limit">>
      [] op \in {"create_work_item", "update_work_item"}
            -> <<"azure_devops_error_handler", "request_size_limit", "rate_limit">>
      [] op \in {"list_pull_requests", "get_pull_request",
                 "get_pull_request_comments", "list_branches", "get_commits",
                 "list_items"}
            -> <<"azure_devops_error_handler">>
      [] op = "list_team_projects" -> <<>>

\* The decorators of each operation, outermost first
decorators(op) ==
    CASE op \in {"list_work_items", "get_work_item"}
            -> <<"rate_limit", "azure_devops_error_handler">>
      [] op \in {"create_work_item", "update_work_item"}
            -> <<"request_size_limit", "rate_limit", "azure_devops_error_handler">>
      [] op \in {"list_pull_requests", "get_pull_request",
                 "get_pull_request_comments", "list_branches", "get_commits",
                 "list_items"}
            -> <<"azure_devops_error_handler">>
      [] op = "list_team_projects" -> <<>>

\* The keys of _rate_limit_storage: the names of the rate-limited operations
Keys == {op \in Ops : \E i \in DOMAIN decorators(op) : decorators(op)[i] = "rate_limit"}

---------------------------------------------------------------------------
(* azure_devops_error_handler: r is what the wrapped callable did *)

error_context(cls) ==
    IF startswith(cls, "AzureDevOps")
    THEN " in " \o lower(replace(cls, "AzureDevOps", ""))
    ELSE ""

\* func_name.replace('_', ' ')
spaced(func_name) == replace(func_name, "_", " ")

\* Computed once per class and per function.
CONTEXT_OF == [cls \in {class_name(op) : op \in Ops} |-> error_context(cls)]
SPACED_NAME_OF == [op \in Ops |-> spaced(op)]

\* context = "" unless args and args[0]'s class is named AzureDevOps...
context_of_call(call) ==
    IF call.args # <<>> /\ type_name(call.args[1]) \in DOMAIN CONTEXT_OF
    THEN CONTEXT_OF[type_name(call.args[1])]
    ELSE ""

\* Mutant: the broad except clause comes first
azure_devops_error_handler_broad_first(func_name, call, r) ==
    IF r.exc = "none" THEN r
    ELSE [r EXCEPT
            !.exc = "Exception", !.site = "azure_devops_error_handler",
            !.log = Append(@, LogEntry("ERROR",
                       "Unexpected error in " \o func_name \o ": " \o r.msg)),
            !.msg = "Unexpected error in " \o SPACED_NAME_OF[func_name]
                       \o context_of_call(call) \o ": " \o r.msg]

\* Mutant: a failure is answered by calling func once more before it is
\* translated
azure_devops_error_handler_retrying(func_name, call, r) ==
    IF r.exc = "none" THEN r
    ELSE [r EXCEPT
            !.exc = "Exception", !.site = "azure_devops_error_handler",
            !.func_calls = @ + @, !.sdk_calls = @ + @,
            !.log = Append(@, LogEntry("ERROR",
                       (IF r.exc = "AzureDevOpsServiceError"
                        THEN "Azure DevOps API error in "
                        ELSE "Unexpected error in ") \o func_name \o ": " \o r.msg)),
            !.msg = (IF r.exc = "AzureDevOpsServiceError"
                     THEN "Failed to " ELSE "Unexpected error in ")
                       \o SPACED_NAME_OF[func_name]
                       \o context_of_call(call) \o ": " \o r.msg]

\* Mutant: the wrapper awaits func without returning what it gave
azure_devops_error_handler_drops_result(func_name, call, r) ==
    IF r.exc = "none" THEN [r EXCEPT !.result = <<>>]
    ELSE [r EXCEPT
            !.exc = "Exception", !.site = "azure_devops_error_handler",
            !.log = Append(@, LogEntry("ERROR",
                       (IF r.exc = "AzureDevOpsServiceError"
                        THEN "Azure DevOps API error in "
                        ELSE "Unexpected error in ") \o func_name \o ": " \o r.msg)),
            !.msg = (IF r.exc = "AzureDevOpsServiceError"
                     THEN "Failed to " ELSE "Unexpected error in ")
                       \o SPACED_NAME_OF[func_name]
                       \o context_of_call(call) \o ": " \o r.msg]

\* Mutant: a failure is translated and raised without a log entry
azure_devops_error_handler_silent(func_name, call, r) ==
    IF r.exc = "none" THEN r
    ELSE [r EXCEPT
            !.exc = "Exception", !.site = "azure_devops_error_handler",
            !.msg = (IF r.exc = "AzureDevOpsServiceError"
                     THEN "Failed to " ELSE "Unexpected error in ")
                       \o SPACED_NAME_OF[func_name]
                       \o context_of_call(call) \o ": " \o r.msg]

azure_devops_error_handler(func_name, call, r) ==
    IF r.exc = "none" THEN r
    ELSE IF r.exc = "AzureDevOpsServiceError"
    THEN [r EXCEPT
            !.exc = "Exception", !.site = "azure_devops_error_handler",
            !.log = Append(@, LogEntry("ERROR",
                       "Azure DevOps API error in " \o func_name \o ": " \o r.msg)),
            !.msg = "Failed to " \o SPACED_NAME_OF[func_name]
                       \o context_of_call(call) \o ": " \o r.msg]
    ELSE [r EXCEPT
            !.exc = "Exception", !.site = "azure_devops_error_handler",
            !.log = Append(@, LogEntry("ERROR",
                       "Unexpected error in " \o func_name \o ": " \o r.msg)),
            !.msg = "Unexpected error in " \o SPACED_NAME_OF[func_name]
                       \o context_of_call(call) \o ": " \o r.msg]

---------------------------------------------------------------------------
(* rate_limit *)

\* Mutant: one key for every function
rate_limit_key_shared(func_name, args) == "create_work_item"

\* Mutant: the key depends on the client instance too, so that the records
\* of a second client go to a sequence of their own
rate_limit_key_per_client(func_name, args) ==
    IF instance_of(args[1]) = 0 THEN func_name
    ELSE CHOOSE k \in Keys : k # func_name

\* key = f"{func_name}": the wrapper's args, self among them, play no part
rate_limit_key(func_name, args) == func_name

\* Mutant: a record exactly on the window's edge is dropped too
RECURSIVE clean_old_entries_inclusive(_, _)
clean_old_entries_inclusive(request_times, window_start) ==
    IF request_times # <<>> /\ Head(request_times) <= window_start
    THEN clean_old_entries_inclusive(Tail(request_times), window_start)
    ELSE request_times

\* Mutant: nothing is ever dropped
clean_old_entries_never(request_times, window_start) == request_times

\* while request_times and request_times[0] < window_start: popleft()
RECURSIVE clean_old_entries(_, _)
clean_old_entries(request_times, window_start) ==
    IF request_times # <<>> /\ Head(request_times) < window_start
    THEN clean_old_entries(Tail(request_times), window_start)
    ELSE request_times

\* Mutant: nothing is dropped; the records of the window are counted
\* where they lie
rate_limit_untrimmed(rpm, func_name, args, st, current_time) ==
    LET key == rate_limit_key(func_name, args)
        window_start == current_time - WINDOW_SECONDS
        request_times == st[key]
    IN IF Cardinality({i \in DOMAIN request_times :
                          request_times[i] >= window_start}) >= rpm
       THEN [rejected |-> TRUE,
             st |-> st,
             log |-> <<LogEntry("WARNING", "Rate limit exceeded for " \o func_name)>>,
             msg |-> "Rate limit exceeded. Maximum " \o ToString(rpm)
                        \o " requests per minute allowed."]
       ELSE [rejected |-> FALSE,
             st |-> [st EXCEPT ![key] = Append(request_times, current_time)],
             log |-> <<>>, msg |-> ""]

\* Mutant: the limit is tested with > where the code has >=
rate_limit_off_by_one(rpm, func_name, args, st, current_time) ==
    LET key == rate_limit_key(func_name, args)
        window_start == current_time - WINDOW_SECONDS
        request_times == clean_old_entries(st[key], window_start)
    IN IF Len(request_times) > rpm
       THEN [rejected |-> TRUE,
             st |-> [st EXCEPT ![key] = request_times],
             log |-> <<LogEntry("WARNING", "Rate limit exceeded for " \o func_name)>>,
             msg |-> "Rate limit exceeded. Maximum " \o ToString(rpm)
                        \o " requests per minute allowed."]
       ELSE [rejected |-> FALSE,
             st |-> [st EXCEPT ![key] = Append(request_times, current_time)],
             log |-> <<>>, msg |-> ""]

\* The admission part of rate_limit's wrapper, up to the call of func:
\* the storage it leaves, and the failure it raises if it rejects.
rate_limit(rpm, func_name, args, st, current_time) ==
    LET key == rate_limit_key(func_name, args)
        window_start == current_time - WINDOW_SECONDS
        request_times == clean_old_entries(st[key], window_start)
    IN IF Len(request_times) >= rpm
       THEN [rejected |-> TRUE,
             st |-> [st EXCEPT ![key] = request_times],
             log |-> <<LogEntry("WARNING", "Rate limit exceeded for " \o func_name)>>,
             msg |-> "Rate limit exceeded. Maximum " \o ToString(rpm)
                        \o " requests per minute allowed."]
       ELSE [rejected |-> FALSE,
             st |-> [st EXCEPT ![key] = Append(request_times, current_time)],
             log |-> <<>>, msg |-> ""]

---------------------------------------------------------------------------
(* request_size_limit *)

\* Mutant: characters counted where the code counts encoded bytes
too_large_chars(value, max_bytes) == type_name(value) = "str" /\ str_len(code_points(value)) > max_bytes

\* Mutant: a str held by a list is measured too
too_large_in_containers(value, max_bytes) ==
    type_name(value) \in {"str", "list"} /\ utf8_len(code_points(value)) > max_bytes

\* isinstance(arg, str) and len(arg.encode('utf-8')) > max_bytes
too_large(value, max_bytes) == type_name(value) = "str" /\ utf8_len(code_points(value)) > max_bytes

\* Mutant: the first positional argument is measured like the others
request_size_limit_all_args(max_size_mb, func_name, call) ==
    LET max_bytes == max_size_mb * BYTES_PER_KB * BYTES_PER_KB
        bad_args == {i \in 1..Len(call.args) : too_large(call.args[i], max_bytes)}
        bad_kwargs == {i \in DOMAIN call.kwargs : too_large(call.kwargs[i].v, max_bytes)}
        msg == "Request data too large. Maximum " \o ToString(max_size_mb)
                  \o "MB allowed."
    IN IF bad_args # {}
       THEN [rejected |-> TRUE, msg |-> msg,
             log |-> <<LogEntry("WARNING",
                        "Request size limit exceeded in " \o func_name)>>]
       ELSE IF bad_kwargs # {}
       THEN LET i == CHOOSE j \in bad_kwargs : \A k \in bad_kwargs : j <= k
            IN [rejected |-> TRUE, msg |-> msg,
                log |-> <<LogEntry("WARNING",
                           "Request size limit exceeded in " \o func_name
                              \o " for parameter " \o call.kwargs[i].k)>>]
       ELSE [rejected |-> FALSE, msg |-> "", log |-> <<>>]

\* The check part of request_size_limit's wrapper, up to the call of func:
\* the positional arguments but the first (args[1:]), then the keyword
\* arguments, stopping at the first offender.
request_size_limit(max_size_mb, func_name, call) ==
    LET max_bytes == max_size_mb * BYTES_PER_KB * BYTES_PER_KB
        bad_args == {i \in 2..Len(call.args) : too_large(call.args[i], max_bytes)}
        bad_kwargs == {i \in DOMAIN call.kwargs : too_large(call.kwargs[i].v, max_bytes)}
        msg == "Request data too large. Maximum " \o ToString(max_size_mb)
                  \o "MB allowed."
    IN IF bad_args # {}
       THEN [rejected |-> TRUE, msg |-> msg,
             log |-> <<LogEntry("WARNING",
                        "Request size limit exceeded in " \o func_name)>>]
       ELSE IF bad_kwargs # {}
       THEN LET i == CHOOSE j \in bad_kwargs : \A k \in bad_kwargs : j <= k
            IN [rejected |-> TRUE, msg |-> msg,
                log |-> <<LogEntry("WARNING",
                           "Request size limit exceeded in " \o func_name
                              \o " for parameter " \o call.kwargs[i].k)>>]
       ELSE [rejected |-> FALSE, msg |-> "", log |-> <<>>]

---------------------------------------------------------------------------
(* A decorated operation: its decorators applied outermost first around    *)
(* the function body.  rpm is the quota its rate_limit was given.          *)

\* The one element of a singleton set: Only({e(x) : x \in {v}}) is e(v)
\* with v evaluated once.
Only(S) == CHOOSE x \in S : TRUE

RECURSIVE invoke(_, _, _, _, _, _, _)

\* Mutant: when the wrapped callable raises, rate_limit takes the record it
\* appended out again and leaves the storage as it found it
invoke_rolling_back(layers, op, call, be, rpm, st, t) ==
    IF layers = <<>> THEN func_body(op, call, be, st)
    ELSE
      LET d == Head(layers)
          rest == Tail(layers)
      IN CASE d = "request_size_limit" ->
                Only({IF c.rejected
                      THEN Raised(st, "Exception", "request_size_limit", c.msg, c.log, 0, 0)
                      ELSE invoke(rest, op, call, be, rpm, st, t) :
                      c \in {request_size_limit(WORK_ITEM_MAX_SIZE_MB, op, call)}})
           [] d = "rate_limit" ->
                Only({IF a.rejected
                      THEN Raised(a.st, "Exception", "rate_limit", a.msg, a.log, 0, 0)
                      ELSE Only({IF r.exc = "none"
                                 THEN [r EXCEPT !.appended = TRUE]
                                 ELSE [r EXCEPT !.appended = TRUE, !.st = st] :
                                 r \in {invoke(rest, op, call, be, rpm, a.st, t)}}) :
                      a \in {rate_limit(rpm, op, call.args, st, t)}})
           [] d = "azure_devops_error_handler" ->
                Only({azure_devops_error_handler(op, call, r) :
                      r \in {invoke(rest, op, call, be, rpm, st, t)}})

invoke(layers, op, call, be, rpm, st, t) ==
    IF layers = <<>> THEN func_body(op, call, be, st)
    ELSE
      LET d == Head(layers)
          rest == Tail(layers)
      IN CASE d = "request_size_limit" ->
                Only({IF c.rejected
                      THEN Raised(st, "Exception", "request_size_limit", c.msg, c.log, 0, 0)
                      ELSE invoke(rest, op, call, be, rpm, st, t) :
                      c \in {request_size_limit(WORK_ITEM_MAX_SIZE_MB, op, call)}})
           [] d = "rate_limit" ->
                Only({IF a.rejected
                      THEN Raised(a.st, "Exception", "rate_limit", a.msg, a.log, 0, 0)
                      ELSE [invoke(rest, op, call, be, rpm, a.st, t)
                               EXCEPT !.appended = TRUE] :
                      a \in {rate_limit(rpm, op, call.args, st, t)}})
           [] d = "azure_devops_error_handler" ->
                Only({azure_devops_error_handler(op, call, r) :
                      r \in {invoke(rest, op, call, be, rpm, st, t)}})

---------------------------------------------------------------------------
(* Inputs *)

SIZE_LIMIT_BYTES == WORK_ITEM_MAX_SIZE_MB * BYTES_PER_KB * BYTES_PER_KB

EMPTY == <<0, 0, 0, 0>>
SMALL == <<3, 0, 0, 0>>
\* ASCII text of exactly the limit, and one byte more
AT_LIMIT == <<SIZE_LIMIT_BYTES, 0, 0, 0>>
OVER_ASCII == <<SIZE_LIMIT_BYTES + 1, 0, 0, 0>>
\* two-byte code points: fewer characters than the limit, more bytes
OVER_WIDE == <<0, SIZE_LIMIT_BYTES \div 2 + 1, 0, 0>>

Texts == {PyStr(EMPTY), PyStr(SMALL), PyStr(AT_LIMIT), PyStr(OVER_ASCII),
          PyStr(OVER_WIDE)}

Call(args, kwargs) == [args |-> args, kwargs |-> kwargs]
\* client.<op>(*args, **kwargs): the bound method passes its instance first
Method(op, args, kwargs) == Call(<<PyObject(class_name(op))>> \o args, kwargs)
Kw(k, v) == [k |-> k, v |-> v]

Calls(op) ==
    CASE op = "get_work_item" -> {Method(op, <<PyInt(n)>>, <<>>) : n \in {0, 1}}
      [] op = "create_work_item" ->
            {Method(op, <<PyStr(SMALL), PyStr(SMALL), x, PyNone>>, <<>>) : x \in Texts}
            \cup {Method(op, <<PyStr(EMPTY), PyStr(SMALL), PyStr(SMALL), PyNone>>, <<>>),
                  Method(op, <<PyStr(SMALL), PyStr(SMALL), PyStr(SMALL), PyStr(OVER_ASCII)>>, <<>>)}
            \cup {Method(op, <<PyStr(SMALL), PyStr(SMALL), PyStr(SMALL), PyNone>>,
                       <<Kw("System.State", x)>>) :
                     x \in {PyStr(SMALL), PyStr(OVER_WIDE), PyList(OVER_ASCII)}}
      [] op = "update_work_item" ->
            {Method(op, <<PyInt(n)>>, <<>>) : n \in {0, 1}}
            \cup {Method(op, <<PyInt(1)>>, <<Kw("System.Title", x)>>) :
                     x \in Texts \cup {PyList(OVER_ASCII)}}
      [] op = "list_pull_requests" ->
            {Method(op, <<x, PyStr(SMALL), PyStr(SMALL), PyInt(50)>>, <<>>) :
                x \in {PyStr(EMPTY), PyStr(SMALL), PyStr(OVER_ASCII)}}
            \cup {Method(op, <<PyStr(SMALL), PyStr(EMPTY), PyStr(SMALL), PyInt(50)>>, <<>>)}
      [] op = "get_pull_request" ->
            {Method(op, <<PyStr(SMALL), PyStr(SMALL), PyInt(n)>>, <<>>) :
                n \in {0 - 1, 0, 1}}
            \cup {Method(op, <<PyStr(EMPTY), PyStr(SMALL), PyInt(1)>>, <<>>),
                  Method(op, <<PyStr(SMALL), PyStr(EMPTY), PyInt(1)>>, <<>>)}
      [] op = "list_team_projects" -> {Method(op, <<>>, <<>>)}

\* What the SDK does when it is called
Backend ==
    {[outcome |-> "ok", text |-> "", found |-> 3, failing |-> {}],
     [outcome |-> "AzureDevOpsServiceError",
      text |-> "TF401232: work_item 7 does not exist", found |-> 3, failing |-> {}],
     [outcome |-> "Exception", text |-> "connection_reset by peer",
      found |-> 3, failing |-> {}]}

\* The clock readings of the timing study: the first seconds of a window
\* and the same seconds one window later, so that a record is found just
\* inside, exactly on and just outside the window's edge.
Times == {b + o : b \in {0, WINDOW_SECONDS}, o \in 0..MaxOffset}

\* The timing study invokes two rate-limited operations, one of them behind
\* the size guard, with arguments that pass validation and one that is
\* oversized.
WindowOps == {"create_work_item", "get_work_item"}

WindowCalls(op) ==
    CASE op = "get_work_item" -> {Method(op, <<PyInt(1)>>, <<>>)}
      [] op = "create_work_item" ->
            {Method(op, <<PyStr(SMALL), PyStr(SMALL), x, PyNone>>, <<>>) :
                x \in {PyStr(SMALL), PyStr(OVER_WIDE)}}

WindowBackend == {be \in Backend : be.outcome \in {"ok", "AzureDevOpsServiceError"}}

---------------------------------------------------------------------------
(* State machine *)

NotCalled == [outcome |-> "not called", text |-> "", found |-> 0, failing |-> {}]

\* The client operation is called directly, not through a tool
NoToolCall == <<"none", 0>>

\* The invocations followed statement by statement: each is one call of
\* create_work_item, as a coroutine of the event loop or as a thread.
Tasks == 1..MaxTasks

\* An invocation is at a statement of the wrappers (pc), with the call it
\* was made with and the current_time it read.
NotStarted == <<"ready", Call(<<>>, <<>>), 0>>

NoCall == [op |-> "none", call |-> Call(<<>>, <<>>), be |-> NotCalled,
           t |-> 0, exc |-> "none", site |-> "none", msg |-> "", result |-> <<>>,
           log |-> <<>>, func_calls |-> 0, sdk_calls |-> 0, sdk_failures |-> 0,
           appended |-> FALSE, orig |-> NoException]

Init ==
    /\ requests_per_minute \in [Keys -> 1..MaxQuota]
    /\ rate_limit_storage = [k \in Keys |-> <<>>]
    /\ now = 0
    /\ admitted = [k \in Keys |-> <<>>]
    /\ admitted_by = [k \in Keys |-> <<>>]
    /\ last = NoCall
    /\ tool_call = NoToolCall
    /\ in_flight = [p \in Tasks |-> NotStarted]

\* One invocation of operation op when the clock reads t, run to its
\* return or its exception.
Invoke(op, call, be, t) ==
    /\ LET rpm == IF op \in Keys THEN requests_per_minute[op] ELSE 0
       IN \E r \in {invoke(decorators(op), op, call, be, rpm, rate_limit_storage, t)} :
          /\ now' = t
          /\ rate_limit_storage' = r.st
          /\ admitted' = IF r.appended
                         THEN [admitted EXCEPT
                                 ![rate_limit_key(op, call.args)] = Append(@, t)]
                         ELSE admitted
          /\ admitted_by' = IF r.appended
                            THEN [admitted_by EXCEPT
                                    ![rate_limit_key(op, call.args)] =
                                        Append(@, instance_of(call.args[1]))]
                            ELSE admitted_by
          /\ last' = [op |-> op, call |-> call,
                      be |-> IF r.sdk_calls > 0 THEN be ELSE NotCalled, t |-> t, exc |-> r.exc,
                      site |-> r.site, msg |-> r.msg, result |-> r.result,
                      log |-> r.log, func_calls |-> r.func_calls,
                      sdk_calls |-> r.sdk_calls, sdk_failures |-> r.sdk_failures,
                      appended |-> r.appended,
                      orig |-> r.orig]
    /\ UNCHANGED <<requests_per_minute, tool_call, in_flight>>

\* Burst: every invocation reads the same clock value.  The operations of
\* the burst are those that make one SDK call.
BurstOps == {"get_work_item", "create_work_item", "update_work_item",
             "list_pull_requests", "list_team_projects"}

InitBurst ==
    /\ Init
    /\ \A k \in Keys \ BurstOps : requests_per_minute[k] = 1

Next == \E op \in BurstOps, be \in Backend : \E call \in Calls(op) :
            Invoke(op, call, be, now)

Spec == InitBurst /\ [][Next]_vars

\* Parameter validation in a burst: operations that take ids and fields,
\* two of them rate-limited, called with valid and with invalid parameters.
ValidationOps == {"get_work_item", "update_work_item", "list_pull_requests",
                  "get_pull_request"}

InitValidation ==
    /\ Init
    /\ \A k \in Keys \ ValidationOps : requests_per_minute[k] = 1

NextValidation == \E op \in ValidationOps, be \in Backend : \E call \in Calls(op) :
                      Invoke(op, call, be, now)

SpecValidation == InitValidation /\ [][NextValidation]_vars

\* list_work_items in a burst: the query finds nothing, or one, two or
\* three batches of work items, of which some cannot be fetched.
ListBackend ==
    {[outcome |-> "ok", text |-> "", found |-> 0, failing |-> {}],
     [outcome |-> "ok", text |-> "", found |-> 3, failing |-> {}],
     [outcome |-> "ok", text |-> "", found |-> 25, failing |-> {}],
     [outcome |-> "ok", text |-> "VS403: batch unavailable", found |-> 3, failing |-> {1}],
     [outcome |-> "ok", text |-> "VS403: batch unavailable", found |-> 25, failing |-> {2}],
     [outcome |-> "ok", text |-> "VS403: batch unavailable", found |-> 45, failing |-> {1, 3}],
     [outcome |-> "AzureDevOpsServiceError", text |-> "TF51005: the query is invalid",
      found |-> 0, failing |-> {}],
     [outcome |-> "Exception", text |-> "connection_reset by peer",
      found |-> 0, failing |-> {}]}

ListLimits == {1, 21, 50}

ListCalls ==
    {Method("list_work_items", <<project, query, PyInt(limit)>>, <<>>) :
        project \in {PyStr(EMPTY), PyStr(SMALL)}, query \in {PyNone, PyStr(SMALL)},
        limit \in ListLimits}

InitList ==
    /\ Init
    /\ \A k \in Keys \ {"list_work_items"} : requests_per_minute[k] = 1

NextList == \E be \in ListBackend, call \in ListCalls :
                Invoke("list_work_items", call, be, now)

SpecList == InitList /\ [][NextList]_vars

\* Timing study: the clock advances between invocations and never runs
\* backwards.
InitWindow ==
    /\ Init
    /\ \A k \in Keys \ WindowOps : requests_per_minute[k] = 1

NextWindow == \E op \in WindowOps, be \in WindowBackend, t \in Times :
                \E call \in WindowCalls(op) : t >= now /\ Invoke(op, call, be, t)

SpecWindow == InitWindow /\ [][NextWindow]_vars

\* Two clients: two instances of AzureDevOpsWorkItems call get_work_item
\* while the clock advances.
Instances == {0, 1}

InstanceCalls ==
    {Call(<<PyInstance("AzureDevOpsWorkItems", n), PyInt(1)>>, <<>>) : n \in Instances}

InitInstances ==
    /\ Init
    /\ \A k \in Keys \ {"get_work_item"} : requests_per_minute[k] = 1

NextInstances == \E be \in WindowBackend, t \in Times, call \in InstanceCalls :
                    t >= now /\ Invoke("get_work_item", call, be, t)

SpecInstances == InitInstances /\ [][NextInstances]_vars

\* The size-guarded callables called as plain functions: whatever is passed
\* first takes the place of self.
DirectOps == {"create_work_item", "update_work_item"}

Receivers == {PyObject("AzureDevOpsWorkItems"), PyStr(SMALL), PyStr(OVER_ASCII),
              PyStr(OVER_WIDE)}

DirectCalls(op) ==
    CASE op = "create_work_item" ->
            {Call(<<x, PyStr(SMALL), PyStr(SMALL), y, PyNone>>, kw) :
                x \in Receivers, y \in {PyStr(SMALL), PyStr(OVER_ASCII)},
                kw \in {<<>>, <<Kw("System.State", PyStr(OVER_ASCII))>>}}
      [] op = "update_work_item" ->
            {Call(<<x, PyInt(1)>>, <<Kw("System.Title", y)>>) :
                x \in Receivers, y \in {PyStr(SMALL), PyStr(OVER_ASCII)}}

InitDirect ==
    /\ Init
    /\ \A k \in Keys \ DirectOps : requests_per_minute[k] = 1

NextDirect == \E op \in DirectOps, be \in Backend : \E call \in DirectCalls(op) :
                  Invoke(op, call, be, now)

SpecDirect == InitDirect /\ [][NextDirect]_vars

\* Wall clock: time.time() may return to a later call an earlier reading
\* than to the call before it.  get_work_item is invoked until it has been
\* admitted MaxAdmissions times.
InitClock ==
    /\ Init
    /\ \A k \in Keys \ {"get_work_item"} : requests_per_minute[k] = 1

NextClock == \E be \in WindowBackend, t \in Times :
                \E call \in WindowCalls("get_work_item") :
                    /\ Len(admitted["get_work_item"]) < MaxAdmissions
                    /\ Invoke("get_work_item", call, be, t)

SpecClock == InitClock /\ [][NextClock]_vars

\* The MCP tools that take a limit: each clamps it and calls its client
\* operation with positional arguments.
LimitTools == {"list_branches", "get_commits", "list_pull_requests",
               "get_pull_request_comments"}

\* Every MCP tool that takes a limit: those above, the two that list work
\* items and the one that lists the items of a repository path
ListTools == LimitTools \cup {"list_work_items", "query_work_items",
                              "list_repository_items"}

\* The client operation a tool calls
tool_operation(tool) ==
    CASE tool = "query_work_items" -> "list_work_items"
      [] tool = "list_repository_items" -> "list_items"
      [] OTHER -> tool

\* Mutant: the tool hands on the limit it was given
tool_limit_unclamped(limit) == limit

\* limit = min(max(limit, 1), 100)
tool_limit(limit) == py_min(py_max(limit, 1), TOOL_MAX_LIMIT)

\* limit = min(max(limit, 1), 200)
items_tool_limit(limit) == py_min(py_max(limit, 1), TOOL_MAX_ITEMS_LIMIT)

tool_client_call(tool, limit) ==
    CASE tool = "list_work_items" ->
            Method("list_work_items",
                   <<PyStr(SMALL), PyNone, PyInt(tool_limit(limit))>>, <<>>)
      [] tool = "query_work_items" ->
            Method("list_work_items",
                   <<PyStr(SMALL), PyStr(SMALL), PyInt(tool_limit(limit))>>, <<>>)
      [] tool = "list_repository_items" ->
            Method("list_items",
                   <<PyStr(SMALL), PyStr(SMALL), PyStr(SMALL), PyStr(SMALL),
                     PyInt(items_tool_limit(limit))>>, <<>>)
      [] tool = "list_branches" ->
            Method(tool, <<PyStr(SMALL), PyStr(SMALL), PyInt(tool_limit(limit))>>, <<>>)
      [] tool = "get_commits" ->
            Method(tool, <<PyStr(SMALL), PyStr(SMALL), PyStr(SMALL),
                           PyInt(tool_limit(limit))>>, <<>>)
      [] tool = "list_pull_requests" ->
            Method(tool, <<PyStr(SMALL), PyStr(SMALL), PyStr(SMALL),
                           PyInt(tool_limit(limit))>>, <<>>)
      [] tool = "get_pull_request_comments" ->
            Method(tool, <<PyStr(SMALL), PyStr(SMALL), PyInt(1),
                           PyInt(tool_limit(limit))>>, <<>>)

\* The limits a caller may ask for: from below the least to above the
\* greatest the tools document
Limits == (0 - 1)..(DOCUMENTED_MAX_LIMIT + 1)

ToolCalls == {<<tool, limit>> : tool \in ListTools, limit \in Limits}

\* The server holds nothing, a few items, or more than any limit allows
ToolBackend ==
    {[outcome |-> "ok", text |-> "", found |-> 0, failing |-> {}],
     [outcome |-> "ok", text |-> "", found |-> 3, failing |-> {}],
     [outcome |-> "ok", text |-> "", found |-> 250, failing |-> {}],
     [outcome |-> "AzureDevOpsServiceError",
      text |-> "TF401019: the repository does not exist", found |-> 0, failing |-> {}]}

\* One tool call is served: its client operation is invoked with the
\* clamped limit.
Tool(be) ==
    /\ tool_call # NoToolCall
    /\ Invoke(tool_operation(tool_call[1]),
              tool_client_call(tool_call[1], tool_call[2]), be, now)

InitTools ==
    /\ requests_per_minute = [k \in Keys |-> 1]
    /\ rate_limit_storage = [k \in Keys |-> <<>>]
    /\ now = 0
    /\ admitted = [k \in Keys |-> <<>>]
    /\ admitted_by = [k \in Keys |-> <<>>]
    /\ last = NoCall
    /\ tool_call \in ToolCalls
    /\ in_flight = [p \in Tasks |-> NotStarted]

NextTools == \E be \in ToolBackend : Tool(be)

SpecTools == InitTools /\ [][NextTools]_vars

---------------------------------------------------------------------------
(* The wrappers statement by statement.  Each invocation in flight is one  *)
(* call of create_work_item: request_size_limit's wrapper, then            *)
(* rate_limit's wrapper one statement at a time, then the await of the     *)
(* wrapped function, where the SDK is called.                              *)

TaskOp == "create_work_item"

pc_of(p) == in_flight[p][1]
call_of(p) == in_flight[p][2]
current_time_of(p) == in_flight[p][3]

\* The decorators of op that lie inside its rate_limit
inside_rate_limit(op) ==
    LET i == CHOOSE j \in DOMAIN decorators(op) : decorators(op)[j] = "rate_limit"
    IN SubSeq(decorators(op), i + 1, Len(decorators(op)))

\* The statements of rate_limit's wrapper from the reading of the clock to
\* the append: an invocation that is at one of them has begun admission
\* and not finished it.
AdmissionStatements == {"clock", "trim", "head", "pop", "check", "append"}

\* Mutant: the scheduler may switch to another invocation at any statement
may_run_preemptive(p) == TRUE

\* The event loop runs one coroutine at a time and switches only where the
\* running one awaits: invocation p takes a step only while no other
\* invocation is between its start and its await.  The one await of
\* rate_limit's wrapper is "return await func(*args, **kwargs)".
may_run(p) == \A q \in Tasks \ {p} : pc_of(q) \notin AdmissionStatements

\* Mutant: the append looks at the length once more
append_request_if_below_quota(request_times, current_time) ==
    IF Len(request_times) < requests_per_minute[TaskOp]
    THEN Append(request_times, current_time)
    ELSE request_times

\* request_times.append(current_time)
append_request(request_times, current_time) == Append(request_times, current_time)

\* request_size_limit's wrapper: both loops, then the call of the wrapped
\* callable, which is rate_limit's wrapper
CheckSize(p, call) ==
    /\ pc_of(p) = "ready"
    /\ in_flight' = [in_flight EXCEPT ![p] =
          <<IF request_size_limit(WORK_ITEM_MAX_SIZE_MB, TaskOp, call).rejected
            THEN "too_large" ELSE "clock", call, 0>>]
    /\ UNCHANGED <<requests_per_minute, rate_limit_storage, now, admitted,
                   admitted_by, last, tool_call>>

\* current_time = time.time(); window_start = current_time - 60
ReadClock(p, t) ==
    /\ pc_of(p) = "clock"
    /\ t >= now
    /\ now' = t
    /\ in_flight' = [in_flight EXCEPT ![p] = <<"trim", @[2], t>>]
    /\ UNCHANGED <<requests_per_minute, rate_limit_storage, admitted,
                   admitted_by, last, tool_call>>

\* while request_times ...
TestNonEmpty(p) ==
    /\ pc_of(p) = "trim"
    /\ in_flight' = [in_flight EXCEPT ![p] =
          <<IF rate_limit_storage[TaskOp] # <<>> THEN "head" ELSE "check",
            @[2], @[3]>>]
    /\ UNCHANGED <<requests_per_minute, rate_limit_storage, now, admitted,
                   admitted_by, last, tool_call>>

\* ... and request_times[0] < window_start: IndexError on an empty deque
TestHead(p) ==
    /\ pc_of(p) = "head"
    /\ in_flight' = [in_flight EXCEPT ![p] =
          <<IF rate_limit_storage[TaskOp] = <<>> THEN "IndexError"
            ELSE IF Head(rate_limit_storage[TaskOp])
                       < current_time_of(p) - WINDOW_SECONDS
                 THEN "pop" ELSE "check",
            @[2], @[3]>>]
    /\ UNCHANGED <<requests_per_minute, rate_limit_storage, now, admitted,
                   admitted_by, last, tool_call>>

\* request_times.popleft(): IndexError on an empty deque
PopLeft(p) ==
    /\ pc_of(p) = "pop"
    /\ IF rate_limit_storage[TaskOp] = <<>>
       THEN /\ in_flight' = [in_flight EXCEPT ![p] = <<"IndexError", @[2], @[3]>>]
            /\ UNCHANGED rate_limit_storage
       ELSE /\ in_flight' = [in_flight EXCEPT ![p] = <<"trim", @[2], @[3]>>]
            /\ rate_limit_storage' =
                  [rate_limit_storage EXCEPT ![TaskOp] = Tail(@)]
    /\ UNCHANGED <<requests_per_minute, now, admitted, admitted_by, last,
                   tool_call>>

\* if len(request_times) >= requests_per_minute: log and raise
CheckLimit(p) ==
    /\ pc_of(p) = "check"
    /\ in_flight' = [in_flight EXCEPT ![p] =
          <<IF Len(rate_limit_storage[TaskOp]) >= requests_per_minute[TaskOp]
            THEN "rejected" ELSE "append", @[2], @[3]>>]
    /\ UNCHANGED <<requests_per_minute, rate_limit_storage, now, admitted,
                   admitted_by, last, tool_call>>

\* request_times.append(current_time)
AppendRequest(p) ==
    /\ pc_of(p) = "append"
    /\ rate_limit_storage' =
          [rate_limit_storage EXCEPT
             ![TaskOp] = append_request(@, current_time_of(p))]
    /\ admitted' = [admitted EXCEPT ![TaskOp] = Append(@, current_time_of(p))]
    /\ admitted_by' = [admitted_by EXCEPT
                         ![TaskOp] = Append(@, instance_of(call_of(p).args[1]))]
    /\ in_flight' = [in_flight EXCEPT ![p] = <<"await", @[2], @[3]>>]
    /\ UNCHANGED <<requests_per_minute, now, last, tool_call>>

\* return await func(*args, **kwargs): the error handler and the function
\* run, the SDK answers
AwaitFunc(p, be) ==
    /\ pc_of(p) = "await"
    /\ \E r \in {invoke(inside_rate_limit(TaskOp), TaskOp, call_of(p), be,
                         requests_per_minute[TaskOp], rate_limit_storage,
                         current_time_of(p))} :
          in_flight' = [in_flight EXCEPT ![p] =
             <<IF r.exc = "none" THEN "returned" ELSE "failed", @[2], @[3]>>]
    /\ UNCHANGED <<requests_per_minute, rate_limit_storage, now, admitted,
                   admitted_by, last, tool_call>>

TaskStep(p) ==
    \/ \E call \in WindowCalls(TaskOp) : CheckSize(p, call)
    \/ \E t \in Times : ReadClock(p, t)
    \/ TestNonEmpty(p)
    \/ TestHead(p)
    \/ PopLeft(p)
    \/ CheckLimit(p)
    \/ AppendRequest(p)
    \/ \E be \in WindowBackend : AwaitFunc(p, be)

InitTasks ==
    /\ Init
    /\ \A k \in Keys \ {TaskOp} : requests_per_minute[k] = 1

\* Coroutines of one event loop
NextCooperative ==
    \E p \in Tasks :
        \/ may_run(p) /\ \E call \in WindowCalls(TaskOp) : CheckSize(p, call)
        \/ may_run(p) /\ \E t \in Times : ReadClock(p, t)
        \/ may_run(p) /\ TestNonEmpty(p)
        \/ may_run(p) /\ TestHead(p)
        \/ may_run(p) /\ PopLeft(p)
        \/ may_run(p) /\ CheckLimit(p)
        \/ may_run(p) /\ AppendRequest(p)
        \/ may_run(p) /\ \E be \in WindowBackend : AwaitFunc(p, be)

SpecCooperative == InitTasks /\ [][NextCooperative]_vars

\* Threads that run in parallel: any of them takes the next step
NextThreads == \E p \in Tasks : TaskStep(p)

SpecThreads == InitTasks /\ [][NextThreads]_vars

---------------------------------------------------------------------------
(* Vocabulary of the properties *)

HasDecorator(op, d) ==
    op \in Ops /\ \E i \in DOMAIN decorators(op) : decorators(op)[i] = d

\* The call carries a str argument, positional or keyword, whose UTF-8
\* encoding is longer than the size budget.
Oversized(call) ==
    \/ \E i \in DOMAIN call.args :
          type_name(call.args[i]) = "str"
             /\ utf8_len(code_points(call.args[i])) > SIZE_LIMIT_BYTES
    \/ \E i \in DOMAIN call.kwargs :
          type_name(call.kwargs[i].v) = "str"
             /\ utf8_len(code_points(call.kwargs[i].v)) > SIZE_LIMIT_BYTES

\* The call gets as far as rate_limit's wrapper: no size guard stands before
\* it, or its arguments are within the budget.
ReachesRateLimit(op, call) ==
    op \in Keys /\ ~(HasDecorator(op, "request_size_limit") /\ Oversized(call))

\* How many admissions of the history h carry a timestamp in [from, to]
AdmittedWithin(h, from, to) ==
    Cardinality({i \in DOMAIN h : from <= h[i] /\ h[i] <= to})

IsSuffix(s, full) ==
    Len(s) <= Len(full) /\ s = SubSeq(full, Len(full) - Len(s) + 1, Len(full))

RateLimitMessage(q) ==
    "Rate limit exceeded. Maximum " \o ToString(q) \o " requests per minute allowed."

---------------------------------------------------------------------------
\* C1: when a key already has quota admissions within the trailing 60
\* seconds, the next call that reaches the rate limiter for that key fails
\* with the rate-limit failure, the wrapped function is not invoked and no
\* record is added for the rejected call.
C1_QuotaFilledRejects ==
    [][\A k \in Keys :
         (/\ last'.op = k
          /\ ReachesRateLimit(k, last'.call)
          /\ AdmittedWithin(admitted[k], now' - WINDOW_SECONDS, now')
                >= requests_per_minute[k])
         => /\ last'.exc = "Exception"
            /\ last'.site = "rate_limit"
            /\ last'.msg = RateLimitMessage(requests_per_minute[k])
            /\ last'.func_calls = 0
            /\ last'.sdk_calls = 0
            /\ ~last'.appended
            /\ admitted' = admitted
            /\ IsSuffix(rate_limit_storage'[k], rate_limit_storage[k])]_vars

\* A call is rejected at the window's edge: the quota was filled at second
\* 0 and the call comes at second 60.
C1_Witness ==
    \E k \in Keys :
        /\ last.op = k
        /\ last.site = "rate_limit"
        /\ last.t = WINDOW_SECONDS
        /\ Len(admitted[k]) = requests_per_minute[k]
        /\ \A i \in DOMAIN admitted[k] : admitted[k][i] = 0

\* C2: with the clock never running backwards, no closed interval of 60
\* seconds holds more admissions of one key than the key's quota.
C2_NoWindowExceedsQuota ==
    \A k \in Keys : \A t \in 0..(WINDOW_SECONDS + MaxOffset) :
        AdmittedWithin(admitted[k], t, t + WINDOW_SECONDS) <= requests_per_minute[k]

\* A key has been admitted more often than its quota, in different windows.
C2_Witness ==
    \E k \in Keys :
        /\ Len(admitted[k]) > requests_per_minute[k]
        /\ \E t \in 0..(WINDOW_SECONDS + MaxOffset) :
              AdmittedWithin(admitted[k], t, t + WINDOW_SECONDS) = requests_per_minute[k]

\* C3: only records of the trailing 60 seconds count toward the quota: a
\* call that reaches the rate limiter when fewer than quota admissions lie
\* in the trailing 60 seconds is admitted, and after it no record older
\* than 60 seconds is left in the key's sequence.
C3_StaleRecordsDoNotCount ==
    [][\A k \in Keys :
         (last'.op = k /\ ReachesRateLimit(k, last'.call))
         => /\ (AdmittedWithin(admitted[k], now' - WINDOW_SECONDS, now')
                   < requests_per_minute[k]
                => last'.appended /\ last'.site # "rate_limit")
            /\ \A i \in DOMAIN rate_limit_storage'[k] :
                  rate_limit_storage'[k][i] >= now' - WINDOW_SECONDS]_vars

\* Calls at seconds 0..quota-1 filled the quota and a call at second 61 was
\* admitted.
C3_Witness ==
    \E k \in Keys :
        /\ last.op = k
        /\ last.appended
        /\ last.t = WINDOW_SECONDS + 1
        /\ admitted[k] = [i \in 1..requests_per_minute[k] |-> i - 1]
                            \o <<WINDOW_SECONDS + 1>>

\* C4: an invocation of one operation leaves the record sequence of every
\* other key as it was.
C4_KeysAreIndependent ==
    [][\A k \in Keys :
         last'.op # k
         => /\ rate_limit_storage'[k] = rate_limit_storage[k]
            /\ admitted'[k] = admitted[k]]_vars

\* One key's quota is exhausted and a call on another key is admitted.
C4_Witness ==
    \E a \in Keys, b \in Keys :
        /\ a # b
        /\ AdmittedWithin(admitted[a], now - WINDOW_SECONDS, now)
              >= requests_per_minute[a]
        /\ last.op = b
        /\ last.t = now
        /\ last.appended

---------------------------------------------------------------------------
SizeMessage == "Request data too large. Maximum 5MB allowed."

\* C5: a call of a size-guarded operation with a str argument, positional
\* or keyword, longer than max_size_mb * 1024 * 1024 bytes in UTF-8 fails
\* with the payload-too-large failure, and neither the decorated function
\* nor the SDK has been called.
C5_OversizedRejectedBeforeBackend ==
    (HasDecorator(last.op, "request_size_limit") /\ Oversized(last.call))
    => /\ last.exc = "Exception"
       /\ last.site = "request_size_limit"
       /\ last.msg = SizeMessage
       /\ last.func_calls = 0
       /\ last.sdk_calls = 0

\* A keyword argument of two-byte characters, fewer characters than the
\* budget but more bytes, was rejected.
C5_Witness ==
    /\ last.op = "create_work_item"
    /\ last.call.kwargs # <<>>
    /\ last.call.kwargs[1].v = PyStr(OVER_WIDE)
    /\ str_len(OVER_WIDE) <= SIZE_LIMIT_BYTES
    /\ last.site = "request_size_limit"
    /\ last.sdk_calls = 0

\* C6: in create_work_item and update_work_item the size check comes before
\* rate-limit admission and admission before the function: an oversized
\* call on a key at quota fails with the payload-too-large failure, and a
\* call within the budget on a key at quota fails with the rate-limit
\* failure without the function being called.
C6_SizeCheckPrecedesAdmission ==
    [][\A k \in {"create_work_item", "update_work_item"} :
         (/\ last'.op = k
          /\ AdmittedWithin(admitted[k], now' - WINDOW_SECONDS, now')
                >= requests_per_minute[k])
         => IF Oversized(last'.call)
            THEN last'.site = "request_size_limit" /\ last'.msg = SizeMessage
            ELSE /\ last'.site = "rate_limit"
                 /\ last'.msg = RateLimitMessage(requests_per_minute[k])
                 /\ last'.func_calls = 0]_vars

\* update_work_item was called with an oversized field while its key was at
\* quota, and the caller got the payload-too-large failure.
C6_Witness ==
    /\ last.op = "update_work_item"
    /\ Oversized(last.call)
    /\ Len(rate_limit_storage["update_work_item"])
          = requests_per_minute["update_work_item"]
    /\ last.msg = SizeMessage

\* C7: a call rejected by the size guard leaves the rate-limit storage as
\* it was for every key: nothing trimmed, nothing appended.
C7_SizeRejectionLeavesStorage ==
    [][(HasDecorator(last'.op, "request_size_limit") /\ Oversized(last'.call))
       => /\ rate_limit_storage' = rate_limit_storage
          /\ admitted' = admitted]_vars

\* An oversized call was rejected while its key held a record older than
\* the window, which an admission would have trimmed.
C7_Witness ==
    /\ HasDecorator(last.op, "request_size_limit")
    /\ Oversized(last.call)
    /\ last.site = "request_size_limit"
    /\ rate_limit_storage[last.op] # <<>>
    /\ Head(rate_limit_storage[last.op]) < last.t - WINDOW_SECONDS

\* The operation's name with spaces for underscores
SpokenName ==
    [op \in Ops |->
        CASE op = "list_work_items" -> "list work items"
          [] op = "get_work_item" -> "get work item"
          [] op = "create_work_item" -> "create work item"
          [] op = "update_work_item" -> "update work item"
          [] op = "list_pull_requests" -> "list pull requests"
          [] op = "get_pull_request" -> "get pull request"
          [] op = "get_pull_request_comments" -> "get pull request comments"
          [] op = "list_items" -> "list items"
          [] op = "list_branches" -> "list branches"
          [] op = "get_commits" -> "get commits"
          [] op = "list_team_projects" -> "list team projects"]

\* C8: a failure raised inside an operation wrapped by the error handler
\* reaches the caller as one of two kinds: the SDK's AzureDevOpsServiceError
\* as a message starting "Failed to ", anything else as a message starting
\* "Unexpected error in "; either message holds the operation's name with
\* spaces for underscores and the original failure's text.
C8_FailuresClassified ==
    (/\ last.op \in Ops
     /\ HasDecorator(last.op, "azure_devops_error_handler")
     /\ last.orig.site \in {"sdk", "func"})
    => /\ last.exc = "Exception"
       /\ startswith(last.msg, "Failed to ")
             <=> last.orig.exc = "AzureDevOpsServiceError"
       /\ startswith(last.msg, "Unexpected error in ")
             <=> last.orig.exc # "AzureDevOpsServiceError"
       /\ contains(last.msg, SpokenName[last.op])
       /\ contains(last.msg, last.orig.msg)

\* Both kinds: the SDK's own error inside list_pull_requests became a
\* "Failed to list pull requests" message.
C8_Witness ==
    /\ last.op = "list_pull_requests"
    /\ last.orig.exc = "AzureDevOpsServiceError"
    /\ last.sdk_calls = 1
    /\ startswith(last.msg, "Failed to list pull requests")
    /\ contains(last.msg, "work_item 7")

\* C9: every exported operation passes rate-limit admission before its
\* function is called.
C9_EveryOperationRateLimited ==
    (last.op \in Ops /\ last.func_calls > 0) => last.appended

\* C10: a failure raised by the rate limiter or by the size guard reaches
\* the caller with its message unchanged, and the error handler writes no
\* log entry for it.
C10_GuardFailuresNotNormalized ==
    last.orig.site \in {"rate_limit", "request_size_limit"}
    => /\ last.exc = last.orig.exc
       /\ last.msg = last.orig.msg
       /\ last.msg \in {SizeMessage} \cup {RateLimitMessage(q) : q \in 1..MaxQuota}
       /\ ~startswith(last.msg, "Failed to ")
       /\ ~startswith(last.msg, "Unexpected error in ")
       /\ \A i \in DOMAIN last.log : last.log[i].level = "WARNING"

\* A rate-limit rejection of an operation that the error handler wraps
\* reached the caller with the rate limiter's own message.
C10_Witness ==
    /\ last.op = "create_work_item"
    /\ last.orig.site = "rate_limit"
    /\ last.msg = RateLimitMessage(requests_per_minute["create_work_item"])
    /\ Len(last.log) = 1

---------------------------------------------------------------------------
\* The invocation got past the size guard and the rate limiter: whatever
\* failed, it was not one of them.
ReachedExecution ==
    last.op \in Ops /\ last.orig.site \notin {"rate_limit", "request_size_limit"}

\* C11: an invocation that gets past the guards calls the decorated
\* function exactly once, whether it returns or raises, and an operation
\* that makes one SDK call makes it at most once: a failure of the SDK is
\* translated after exactly one call of the function and one of the SDK.
C11_BackendInvokedOnce ==
    ReachedExecution
    => /\ last.func_calls = 1
       /\ last.op # "list_work_items" => last.sdk_calls <= 1
       /\ (last.op # "list_work_items" /\ last.orig.site = "sdk")
             => last.sdk_calls = 1

\* The SDK raised inside a rate-limited, handler-wrapped operation and the
\* caller got the translated failure after one call.
C11_Witness ==
    /\ last.op = "get_work_item"
    /\ last.appended
    /\ last.orig.site = "sdk"
    /\ last.site = "azure_devops_error_handler"
    /\ last.func_calls = 1
    /\ last.sdk_calls = 1

---------------------------------------------------------------------------
\* How many admissions of key k within [from, to] were made through client
\* instance n
OwnAdmittedWithin(k, n, from, to) ==
    Cardinality({i \in DOMAIN admitted[k] :
                    /\ admitted_by[k][i] = n
                    /\ from <= admitted[k][i] /\ admitted[k][i] <= to})

\* C12: every client instance has a quota of its own for each function: a
\* call that reaches the rate limiter when fewer than quota admissions of
\* its own instance lie in the trailing 60 seconds is admitted, whatever
\* other instances have done.
C12_QuotaPerClientInstance ==
    [][\A k \in Keys :
         (/\ last'.op = k
          /\ ReachesRateLimit(k, last'.call)
          /\ OwnAdmittedWithin(k, instance_of(last'.call.args[1]),
                               now' - WINDOW_SECONDS, now')
                < requests_per_minute[k])
         => last'.appended /\ last'.site # "rate_limit"]_vars

---------------------------------------------------------------------------
\* The context label the documentation gives for each grouping: the class
\* name without its prefix, lower-cased, its words separated
LabelWithSeparatedWords(cls) ==
    CASE cls = "AzureDevOpsWorkItems" -> " in work items"
      [] cls = "AzureDevOpsPullRequests" -> " in pull requests"
      [] cls = "AzureDevOpsGitRepositories" -> " in git repositories"
      [] cls = "AzureDevOpsTeamProjects" -> " in team projects"
      [] OTHER -> ""

\* C14: the message of a failure translated by the error handler carries,
\* right after the operation's spoken name, the context label of the
\* grouping the operation belongs to with its words separated: " in work
\* items" for AzureDevOpsWorkItems, " in pull requests" for
\* AzureDevOpsPullRequests.
C14_ContextLabelSeparatesWords ==
    (last.op \in Ops /\ last.site = "azure_devops_error_handler")
    => contains(last.msg,
                SpokenName[last.op]
                   \o LabelWithSeparatedWords(type_name(last.call.args[1]))
                   \o ": ")

---------------------------------------------------------------------------
\* C15: when any SDK call made during an invocation raises, the caller
\* receives a failure, never a result.
C15_NoResultAfterBackendFailure ==
    (last.op \in Ops /\ last.sdk_failures > 0) => last.exc # "none"

---------------------------------------------------------------------------
\* C16: a limit tool asked for a limit between 1 and the documented
\* maximum of 200 bounds its result by exactly that limit: it returns as
\* many items as were asked for, or all the server holds if those are
\* fewer.
C16_RequestedLimitHonoured ==
    (/\ tool_call[1] \in LimitTools
     /\ last.op = tool_call[1]
     /\ tool_call[2] \in 1..DOCUMENTED_MAX_LIMIT
     /\ last.exc = "none")
    => Len(last.result) = py_min(last.be.found, tool_call[2])

---------------------------------------------------------------------------
\* C17: the guards add nothing to a success and take nothing from it: an
\* invocation that gets past the guards and whose function returns, returns
\* to the caller, and what the caller receives is what the function
\* returned, for the SDK's answer the items the SDK gave.
C17_ResultPassedThrough ==
    (ReachedExecution
     /\ func_body(last.op, last.call, last.be, rate_limit_storage).exc = "none")
    => /\ last.exc = "none"
       /\ last.result
             = func_body(last.op, last.call, last.be, rate_limit_storage).result
       /\ last.op \in {"get_work_item", "create_work_item", "update_work_item"}
             => last.result = <<"work_item">>
       /\ last.op = "list_pull_requests"
             => Len(last.result)
                  = py_min(last.be.found, client_limit(int_value(last.call.args[5])))

\* create_work_item, behind all three layers, was admitted and returned the
\* work item the SDK gave.
C17_Witness ==
    /\ last.op = "create_work_item"
    /\ last.appended
    /\ last.be.outcome = "ok"
    /\ last.exc = "none"
    /\ last.result = <<"work_item">>

---------------------------------------------------------------------------
\* C18: a failure raised by the rate limiter, by the size guard or by the
\* error handler reaches the caller with a log entry written for it: the
\* last entry of the invocation's log is a warning or an error and names
\* the operation.
C18_FailuresAreLogged ==
    (/\ last.op \in Ops
     /\ last.site \in {"rate_limit", "request_size_limit",
                        "azure_devops_error_handler"})
    => /\ last.log # <<>>
       /\ last.log[Len(last.log)].level \in {"WARNING", "ERROR"}
       /\ contains(last.log[Len(last.log)].msg, last.op)
       /\ last.site = "azure_devops_error_handler"
             => /\ last.log[Len(last.log)].level = "ERROR"
                /\ contains(last.log[Len(last.log)].msg, last.orig.msg)

\* An oversized keyword argument of update_work_item was rejected and the
\* warning names the operation and the parameter.
C18_Witness ==
    /\ last.op = "update_work_item"
    /\ last.site = "request_size_limit"
    /\ Len(last.log) = 1
    /\ last.log[1].level = "WARNING"
    /\ last.log[1].msg
          = "Request size limit exceeded in update_work_item for parameter System.Title"

---------------------------------------------------------------------------
\* The records of a sequence that are not older than window_start
NotOlderThan(request_times, window_start) ==
    SelectSeq(request_times, LAMBDA x : x >= window_start)

\* C19: the window rolls with each call and its edge is inside: a call
\* that reaches the rate limiter keeps every record of its key that is at
\* most 60 seconds old and drops every older one; so when the quota was
\* filled at one second t, a call at t + 60 is rejected and a call later
\* than t + 60 is admitted.
C19_StrictlyRollingWindow ==
    [][\A k \in Keys :
         (last'.op = k /\ ReachesRateLimit(k, last'.call))
         => /\ rate_limit_storage'[k]
                  = NotOlderThan(rate_limit_storage[k], now' - WINDOW_SECONDS)
                       \o (IF last'.appended THEN <<now'>> ELSE <<>>)
            /\ (/\ Len(rate_limit_storage[k]) = requests_per_minute[k]
                /\ \A i \in DOMAIN rate_limit_storage[k] :
                      rate_limit_storage[k][i] = Head(rate_limit_storage[k]))
               => /\ now' = Head(rate_limit_storage[k]) + WINDOW_SECONDS
                        => last'.site = "rate_limit" /\ ~last'.appended
                  /\ now' > Head(rate_limit_storage[k]) + WINDOW_SECONDS
                        => last'.appended /\ last'.site # "rate_limit"]_vars

\* The quota was filled at second 1 and a call at second 61, exactly 60
\* seconds later, was rejected: the records of second 1 are still there.
C19_Witness ==
    \E k \in Keys :
        /\ last.op = k
        /\ last.site = "rate_limit"
        /\ last.t = WINDOW_SECONDS + 1
        /\ Len(rate_limit_storage[k]) = requests_per_minute[k]
        /\ \A i \in DOMAIN rate_limit_storage[k] : rate_limit_storage[k][i] = 1

\* C20: in every reachable state the record sequence of every key is
\* ordered oldest-first, whatever readings the clock gives to successive
\* calls.
C20_SequenceTimeOrdered ==
    \A k \in Keys :
        \A i, j \in DOMAIN rate_limit_storage[k] :
            i <= j => rate_limit_storage[k][i] <= rate_limit_storage[k][j]

---------------------------------------------------------------------------
\* How many records of a sequence are within the 60 seconds before t
RecordsWithin(request_times, t) ==
    Cardinality({i \in DOMAIN request_times : request_times[i] >= t - WINDOW_SECONDS})

\* C21: as coroutines of one event loop, invocations interleave only where
\* one awaits its wrapped function: while an invocation is between the
\* start of its admission and its append no other invocation takes a step,
\* and the records of a key within the window are never more than its
\* quota.
C21_AdmissionIsAtomic ==
    [][/\ \A k \in Keys :
            RecordsWithin(rate_limit_storage'[k], now') <= requests_per_minute[k]
       /\ \A p \in Tasks :
            pc_of(p) \in AdmissionStatements
            => \A q \in Tasks \ {p} : in_flight'[q] = in_flight[q]]_vars

\* One invocation is suspended at its await, having filled the quota, and
\* another, started meanwhile, has been rejected.
C21_Witness ==
    \E p, q \in Tasks :
        /\ pc_of(p) = "await"
        /\ pc_of(q) = "rejected"
        /\ current_time_of(q) >= current_time_of(p)
        /\ Len(rate_limit_storage[TaskOp]) = requests_per_minute[TaskOp]

\* C22: as parallel threads, the test of the length and the append are two
\* steps with no lock between them: a thread passes the test exactly when
\* the length it reads is below the quota, and a thread that has passed
\* appends whatever the length has become since, so that two threads that
\* both read quota - 1 both append.
C22_CheckThenAppendNotAtomic ==
    [][\A p \in Tasks :
         /\ (pc_of(p) = "check" /\ in_flight'[p] # in_flight[p])
               => (in_flight'[p][1] = "append"
                     <=> Len(rate_limit_storage[TaskOp]) < requests_per_minute[TaskOp])
         /\ (pc_of(p) = "append" /\ in_flight'[p] # in_flight[p])
               => /\ in_flight'[p][1] = "await"
                  /\ rate_limit_storage'[TaskOp]
                        = Append(rate_limit_storage[TaskOp], current_time_of(p))]_vars

\* More records than the quota lie within the window: every thread passed
\* the test before any of them appended.
C22_Witness ==
    /\ RecordsWithin(rate_limit_storage[TaskOp], now) > requests_per_minute[TaskOp]
    /\ \A p \in Tasks : pc_of(p) = "await"

---------------------------------------------------------------------------
\* C23: a key admits at most twice its quota in any span of 61 seconds and
\* at most its quota in any closed interval of 60; twice the quota in 61
\* seconds is reached, by quota admissions at one second and quota more
\* just after the first ones have left the window.  (An interval holds no
\* more admissions than the one of the same length that starts at the
\* first admission in it, so the intervals that start at an admission are
\* all that need to be looked at.)
C23_AdjacentWindowsAdmitTwiceQuota ==
    \A k \in Keys : \A t \in {admitted[k][i] : i \in DOMAIN admitted[k]} :
        /\ AdmittedWithin(admitted[k], t, t + WINDOW_SECONDS + 1)
              <= 2 * requests_per_minute[k]
        /\ AdmittedWithin(admitted[k], t, t + WINDOW_SECONDS)
              <= requests_per_minute[k]

\* Quota admissions at second 0 and quota more at second 61.
C23_Witness ==
    \E k \in Keys :
        /\ Len(admitted[k]) = 2 * requests_per_minute[k]
        /\ \A i \in 1..requests_per_minute[k] :
              /\ admitted[k][i] = 0
              /\ admitted[k][requests_per_minute[k] + i] = WINDOW_SECONDS + 1
        /\ AdmittedWithin(admitted[k], 0, WINDOW_SECONDS + 1)
              = 2 * requests_per_minute[k]

---------------------------------------------------------------------------
\* The limit the tool handed to the client operation: its last positional
\* argument
HandedLimit == int_value(last.call.args[Len(last.call.args)])

\* The clamp the client operation applies to the limit it is given
SecondClamp(op, limit) ==
    CASE op = "list_items" -> items_client_limit(limit)
      [] op = "list_work_items" -> limit
      [] OTHER -> client_limit(limit)

---------------------------------------------------------------------------
\* The batch the n-th id of the query result falls into
BatchOf(n) == (n - 1) \div BATCH_SIZE + 1

\* How many entries of a log carry the message msg
Logged(log, msg) == Cardinality({i \in DOMAIN log : log[i].msg = msg})

\* C25: list_work_items, given a limit of at least 1 and a query that finds
\* work items, fetches the first limit ids of the query result (all, if
\* they are fewer) in consecutive batches of at most 20; it attempts every
\* batch exactly once, a failing batch does not stop the later ones, and
\* it returns the items of the batches that succeeded in query order, at
\* most limit of them.
C25_BatchesFetchedInOrder ==
    (/\ last.op = "list_work_items"
     /\ last.appended
     /\ truthy(last.call.args[2])
     /\ last.be.outcome = "ok"
     /\ last.be.found > 0
     /\ int_value(last.call.args[4]) >= 1)
    => LET limit == int_value(last.call.args[4])
           fetched == py_min(last.be.found, limit)
           batches == (fetched + BATCH_SIZE - 1) \div BATCH_SIZE
       IN /\ last.exc = "none"
          /\ last.sdk_calls = 1 + batches
          /\ last.sdk_failures = Cardinality(last.be.failing \cap 1..batches)
          /\ last.result = SelectSeq(first_items(fetched),
                                      LAMBDA id : BatchOf(id) \notin last.be.failing)
          /\ Len(last.result) <= limit
          /\ \A b \in 1..batches :
                Logged(last.log,
                       "Processing batch " \o ToString(b) \o ": "
                          \o ToString(py_min(BATCH_SIZE, fetched - BATCH_SIZE * (b - 1)))
                          \o " items") = 1

\* Of 45 work items in three batches the first and the third batch failed:
\* all three were attempted and the 20 items of the second were returned.
C25_Witness ==
    /\ last.op = "list_work_items"
    /\ last.be.found = 45
    /\ last.be.failing = {1, 3}
    /\ int_value(last.call.args[4]) = 50
    /\ last.sdk_calls = 4
    /\ last.result = [i \in 1..BATCH_SIZE |-> BATCH_SIZE + i]

---------------------------------------------------------------------------
\* The positional parameters an operation requires to be non-empty text,
\* and those it requires to be a positive id
RequiredText(op) ==
    CASE op \in {"list_work_items"} -> {2}
      [] op = "create_work_item" -> {2, 3, 4}
      [] op \in {"list_pull_requests", "get_pull_request"} -> {2, 3}
      [] OTHER -> {}

RequiredId(op) ==
    CASE op \in {"get_work_item", "update_work_item"} -> {2}
      [] op = "get_pull_request" -> {4}
      [] OTHER -> {}

\* A required parameter is empty, an id is not positive, or update_work_item
\* is given no field with a value
InvalidParameters(op, call) ==
    \/ \E i \in RequiredText(op) : ~truthy(call.args[i])
    \/ \E i \in RequiredId(op) : int_value(call.args[i]) <= 0
    \/ op = "update_work_item"
          /\ \A i \in DOMAIN call.kwargs : ~truthy(call.kwargs[i].v)

\* C26: an operation wrapped by the error handler looks at its parameters
\* before it calls the SDK: when the invocation reaches the function with
\* a required parameter empty or an id not positive, the SDK is not called
\* and the caller receives the translated failure of the unexpected kind,
\* its message starting "Unexpected error in " and ending with the text of
\* the ValueError.
C26_ValidationBeforeBackend ==
    (/\ last.op \in Ops
     /\ HasDecorator(last.op, "azure_devops_error_handler")
     /\ ReachedExecution
     /\ InvalidParameters(last.op, last.call))
    => /\ last.sdk_calls = 0
       /\ last.be = NotCalled
       /\ last.func_calls = 1
       /\ last.orig.exc = "ValueError"
       /\ last.exc = "Exception"
       /\ last.site = "azure_devops_error_handler"
       /\ startswith(last.msg, "Unexpected error in " \o SpokenName[last.op])
       /\ IsSuffix(": " \o last.orig.msg, last.msg)

\* update_work_item was admitted with one field whose value is empty: no
\* SDK call, and the caller is told that no valid field was provided.
C26_Witness ==
    /\ last.op = "update_work_item"
    /\ last.appended
    /\ int_value(last.call.args[2]) = 1
    /\ Len(last.call.kwargs) = 1
    /\ last.call.kwargs[1].v = PyStr(EMPTY)
    /\ last.sdk_calls = 0
    /\ startswith(last.msg, "Unexpected error in update work item")
    /\ IsSuffix("No valid fields provided for update", last.msg)

---------------------------------------------------------------------------
\* C27: an admission is never taken back.  A call that was admitted leaves
\* its record at the end of its key's sequence whether the wrapped
\* operation then returned, failed in the SDK or failed on its parameters;
\* so every admission of the trailing 60 seconds, failed or not, is among
\* the records that count toward the quota.
C27_AdmissionNeverRolledBack ==
    [][\A k \in Keys :
         /\ (last'.op = k /\ last'.appended)
               => /\ rate_limit_storage'[k]
                        = Append(NotOlderThan(rate_limit_storage[k],
                                              now' - WINDOW_SECONDS), now')
                  /\ admitted'[k] = Append(admitted[k], now')
         /\ RecordsWithin(rate_limit_storage'[k], now')
               = AdmittedWithin(admitted'[k], now' - WINDOW_SECONDS, now')]_vars

\* get_work_item was admitted and failed on its parameter; its record is
\* the one that fills the quota.
C27_Witness ==
    /\ last.op = "get_work_item"
    /\ last.appended
    /\ last.orig.exc = "ValueError"
    /\ last.exc = "Exception"
    /\ Len(rate_limit_storage["get_work_item"]) = requests_per_minute["get_work_item"]
    /\ rate_limit_storage["get_work_item"][Len(rate_limit_storage["get_work_item"])]
          = last.t

---------------------------------------------------------------------------
\* The values a call passes after its receiver, positional and keyword
PassedValues(call) ==
    {call.args[i] : i \in 2..Len(call.args)}
       \cup {call.kwargs[i].v : i \in DOMAIN call.kwargs}

\* C28: the size guard measures only the values that are themselves str: a
\* call none of whose values is a str of more than max_size_mb * 1024 *
\* 1024 encoded bytes is not rejected by it, be there an int, a list that
\* holds a longer str, or a str of exactly that many bytes among them.
C28_OnlyTopLevelStringsMeasured ==
    (/\ HasDecorator(last.op, "request_size_limit")
     /\ \A v \in PassedValues(last.call) :
           type_name(v) # "str" \/ utf8_len(code_points(v)) <= SIZE_LIMIT_BYTES)
    => /\ last.site # "request_size_limit"
       /\ last.orig.site # "request_size_limit"
       /\ last.msg # SizeMessage

\* update_work_item was given a list holding an oversized str as a field
\* value: the size guard let it pass and the SDK was called.
C28_Witness ==
    /\ last.op = "update_work_item"
    /\ Len(last.call.kwargs) = 1
    /\ last.call.kwargs[1].v = PyList(OVER_ASCII)
    /\ utf8_len(OVER_ASCII) > SIZE_LIMIT_BYTES
    /\ last.appended
    /\ last.sdk_calls = 1

---------------------------------------------------------------------------
\* The value is a str of more encoded bytes than the size budget
OverBudget(v) ==
    type_name(v) = "str" /\ utf8_len(code_points(v)) > SIZE_LIMIT_BYTES

\* C29: the size guard skips the first positional argument, whatever it
\* is: a size-guarded callable is rejected by the guard exactly when a
\* positional argument after the first or a keyword argument is a str over
\* the budget, so an oversized str passed first is not rejected and the
\* same str passed anywhere else is.
C29_FirstArgumentNotMeasured ==
    HasDecorator(last.op, "request_size_limit")
    => /\ last.site = "request_size_limit"
             <=> \E v \in PassedValues(last.call) : OverBudget(v)
       /\ (/\ OverBudget(last.call.args[1])
           /\ \A v \in PassedValues(last.call) : ~OverBudget(v))
             => /\ last.orig.site # "request_size_limit"
                /\ last.appended \/ last.site = "rate_limit"

\* An oversized str was passed first and nothing else was oversized: the
\* call went through the guard, was admitted, and failed only where the
\* function looked for its SDK client.
C29_Witness ==
    /\ last.op = "create_work_item"
    /\ last.call.args[1] = PyStr(OVER_ASCII)
    /\ \A v \in PassedValues(last.call) : ~OverBudget(v)
    /\ last.appended
    /\ last.orig.exc = "AttributeError"
    /\ last.sdk_calls = 0

---------------------------------------------------------------------------
\* C30: the records stored for a key, stale ones included, are never more
\* than the key's quota, and the sequence of a key changes only in a call
\* on that key that reaches the rate limiter: until then its stale records
\* stay where they are.
C30_StorageBoundedByQuota ==
    [][\A k \in Keys :
         /\ Len(rate_limit_storage'[k]) <= requests_per_minute[k]
         /\ rate_limit_storage'[k] # rate_limit_storage[k]
               => last'.op = k /\ ReachesRateLimit(k, last'.call)]_vars

\* A key holds quota records, all of them stale, after a call on another
\* key more than 60 seconds later.
C30_Witness ==
    \E a, b \in Keys :
        /\ a # b
        /\ last.op = b
        /\ last.appended
        /\ Len(rate_limit_storage[a]) = requests_per_minute[a]
        /\ \A i \in DOMAIN rate_limit_storage[a] :
              rate_limit_storage[a][i] < now - WINDOW_SECONDS

====
